---- MODULE Spec2Model ----
(***************************************************************************)
(* ar-mintin: order-statistics tree (ostree.rs), progress table            *)
(* (ent_ex.rs) and the pull-based session state machine (sim_ex.rs).       *)
(*                                                                         *)
(* Indices are 0-based as in the source; a Vec is a TLA+ sequence whose    *)
(* element i of the source is element i + 1 of the sequence.               *)
(***************************************************************************)
EXTENDS Integers, Sequences, FiniteSets, TLC

VARIABLES
    ost,        \* SpecTree: the arr of one OSTree
    ostN,       \* SpecTree: the n the tree was created with
    ostOp,      \* SpecTree: the last call on the tree and its result
    catalog,    \* te: the catalog, a sequence of TableEntry
    pt,         \* the ProgressTable
    disk,       \* the progress files: path -> NoFile or a ProgressTableView
    last,       \* the last call on the table and its result
    nsets,      \* number of set() calls so far (bounded by MaxSets)
    sim,        \* SpecSim: the fields of Simulation but pt (args, last_msg, state)
    out,        \* SpecSim: the outcome of the last call of Simulation::next
    ncalls      \* SpecSim: number of calls of Simulation::next so far

vars == <<ost, ostN, ostOp, catalog, pt, disk, last, nsets, sim, out, ncalls>>

treeVars == <<ost, ostN, ostOp>>
tableVars == <<catalog, pt, disk, last, nsets>>
simVars == <<sim, out, ncalls>>

(***************************************************************************)
(* Bounds of the model.                                                    *)
(***************************************************************************)
MaxLen == 2        \* largest catalog / table capacity
MaxAge == 1        \* largest age of the table
MaxSets == 2       \* number of set() calls in one behaviour
MaxWeight == 2     \* largest weight assigned in SpecTree
MaxTreeLen == 4    \* largest n of OSTree::new(n) in SpecTree
MaxChunk == 2      \* longest chunk handed to supply()
MaxCalls == 7      \* number of Simulation::next calls in one behaviour

(***************************************************************************)
(* Program constants.                                                      *)
(***************************************************************************)
UNIT == 10000
MAXDEPTH == 30
ASSESS_SESSIONS == 10
LEARN_SESSIONS == 10

Min(a, b) == IF a < b THEN a ELSE b

(***************************************************************************)
(* ostree.rs                                                               *)
(***************************************************************************)
\* arr[k] of the source is arr[k + 1] here.
ArrLen(arr) == Len(arr)

ArrAt(arr, k) == arr[k + 1]

RECURSIVE PowerOfTwoAtLeast(_, _)
PowerOfTwoAtLeast(c, n) == IF c < n THEN PowerOfTwoAtLeast(c * 2, n) ELSE c

OSTreeNew(n) == [i \in 1 .. (2 * PowerOfTwoAtLeast(1, n)) |-> 0]

OSTreeSum(arr) == ArrAt(arr, 1)

\* AddFrom with a fault: the walk stops below the root.
RECURSIVE AddFromBelowRoot(_, _, _)
AddFromBelowRoot(arr, idx, sum) ==
    IF idx > 1
    THEN AddFromBelowRoot([arr EXCEPT ![idx + 1] = @ + sum], idx \div 2, sum)
    ELSE arr

RECURSIVE AddFrom(_, _, _)
AddFrom(arr, idx, sum) ==
    IF idx > 0
    THEN AddFrom([arr EXCEPT ![idx + 1] = @ + sum], idx \div 2, sum)
    ELSE arr

OSTreeAdd(arr, idx, sum) == AddFrom(arr, idx + (ArrLen(arr) \div 2), sum)

ValueAt(arr, at) == ArrAt(arr, at + (ArrLen(arr) \div 2))

\* OSTreeAssign with a fault: the weight is added to the one held.
OSTreeAssignAdding(arr, idx, val) == OSTreeAdd(arr, idx, val)

OSTreeAssign(arr, idx, val) == OSTreeAdd(arr, idx, val - ValueAt(arr, idx))

\* RankFrom with a fault: a left subtree equal to the target is entered.
RECURSIVE RankFromStrict(_, _, _)
RankFromStrict(arr, p, val) ==
    IF p < ArrLen(arr)
    THEN IF ArrAt(arr, p) < val
         THEN RankFromStrict(arr, (p + 1) * 2, val - ArrAt(arr, p))
         ELSE RankFromStrict(arr, p * 2, val)
    ELSE (p - ArrLen(arr)) \div 2

RECURSIVE RankFrom(_, _, _)
RankFrom(arr, p, val) ==
    IF p < ArrLen(arr)
    THEN IF ArrAt(arr, p) <= val
         THEN RankFrom(arr, (p + 1) * 2, val - ArrAt(arr, p))
         ELSE RankFrom(arr, p * 2, val)
    ELSE (p - ArrLen(arr)) \div 2

OSTreeRank(arr, val) == RankFrom(arr, 2, val)

OSTreeMultiply(arr, coef) == [i \in 1 .. Len(arr) |-> arr[i] * coef]

(***************************************************************************)
(* The calls on one OSTree (SpecTree).                                     *)
(***************************************************************************)
NoOp == [op |-> "none", arg |-> 0, val |-> 0, res |-> 0]

TreeAssign(idx, w) ==
    /\ idx < ostN
    /\ ost' = OSTreeAssign(ost, idx, w)
    /\ ostOp' = [op |-> "assign", arg |-> idx, val |-> w, res |-> 0]
    /\ UNCHANGED ostN

TreeRank(target) ==
    /\ OSTreeSum(ost) > 0
    /\ target < OSTreeSum(ost)
    /\ ostOp' = [op |-> "rank", arg |-> target, val |-> 0,
                 res |-> OSTreeRank(ost, target)]
    /\ UNCHANGED <<ost, ostN>>

(***************************************************************************)
(* ent_ex.rs: Score                                                        *)
(***************************************************************************)
\* (x as i64) of the f64 x = sqrt(v): the largest r with r * r <= v.
RECURSIVE SqrtFrom(_, _, _)
SqrtFrom(v, lo, hi) ==
    IF lo >= hi
    THEN lo
    ELSE LET mid == (lo + hi + 1) \div 2
         IN  IF mid * mid <= v THEN SqrtFrom(v, mid, hi) ELSE SqrtFrom(v, lo, mid - 1)

Isqrt(v) == SqrtFrom(v, 0, Min(v, 46340))

\* Score::function(age, inertia, SCORE_ARGS) as i64 for SCORE_ARGS =
\* {degrade_factor: 0.8, origin: 10000, target: 100}, the only ScoreArgs of
\* the repository: row = inertia (1 ..), column = age + 1.  The values are
\* those of the f64 expression exp(u + mage * phi / inertia), truncated.
ScoreFunctionTable ==
    << <<10000, 8000, 6400, 5120, 4096, 3276, 2621, 2097, 1677>>,
       <<10000, 8944, 8000, 7155, 6400, 5724, 5120, 4579, 4096>>,
       <<10000, 9283, 8617, 8000, 7426, 6894, 6400, 5941, 5515>>,
       <<10000, 9457, 8944, 8458, 8000, 7565, 7155, 6767, 6400>>,
       <<10000, 9563, 9146, 8746, 8365, 8000, 7650, 7316, 6997>> >>

\* With inertia 0 the epoch is 0 and the f64 result is NaN, which `as i64`
\* turns into 0.  With age 0 mage is 0 and the result is exp(u), whatever
\* the inertia.
ScoreFunction(age, inertia) ==
    IF inertia = 0 THEN 0
    ELSE IF age = 0 THEN ScoreFunctionTable[1][1]
    ELSE ScoreFunctionTable[inertia][age + 1]

\* The (distrust, unit) pairs, unit a value of ScoreFunctionTable, at which
\* the f64 product us * (dt0 / us).powf(0.5) falls just below the exact
\* root of the perfect square dt0 * us, so that `as i64` yields one less.
PowfBelowRoot ==
    { <<529, 6400>>, <<1681, 6400>>, <<2116, 6400>>, <<6724, 6400>>,
      <<7569, 6400>>, <<8464, 6400>>, <<8649, 6400>>, <<9409, 6400>>,
      <<5746, 7650>>, <<6845, 8000>>, <<49, 10000>>, <<196, 10000>>,
      <<289, 10000>>, <<784, 10000>>, <<1156, 10000>>, <<3136, 10000>>,
      <<4624, 10000>> }

\* set(), pass == false: Score((us * (dt0 / us).powf(SMOOTH_F)) as i64).
\* us == 0 gives NaN (or inf * 0), which `as i64` turns into 0.
\* DistrustOnFail with a fault: the ratio is inverted, us * (us / dt0)^0.5.
DistrustOnFailInverted(dt0, us) ==
    IF us = 0 \/ dt0 = 0 THEN 0
    ELSE (us * Isqrt((us * 10000) \div dt0)) \div 100

DistrustOnFail(dt0, us) ==
    IF us = 0 THEN 0
    ELSE IF <<dt0, us>> \in PowfBelowRoot THEN Isqrt(dt0 * us) - 1
    ELSE Isqrt(dt0 * us)

\* set(), pass == true: Score((dt0 + 1) / 2).
\* DistrustOnPass with a fault: the halving rounds down.
DistrustOnPassDown(dt0) == dt0 \div 2

DistrustOnPass(dt0) == (dt0 + 1) \div 2

(***************************************************************************)
(* ent_ex.rs: ProgressTable                                                *)
(***************************************************************************)
ProgressEntry(d, p) == [distrust |-> d, pass |-> p]

RECURSIVE AssignEntries(_, _, _, _)
AssignEntries(tree, es, k, pass) ==
    IF k > Len(es)
    THEN tree
    ELSE AssignEntries(
             IF es[k].pass = pass
             THEN OSTreeAssign(tree, k - 1, es[k].distrust)
             ELSE tree,
             es, k + 1, pass)

TreeFromEntries(es, pass) == AssignEntries(OSTreeNew(Len(es)), es, 1, pass)

UnitScore(t) == ScoreFunction(t.age, Len(t.entries))

RECURSIVE AssignUnit(_, _, _, _)
AssignUnit(tree, i, n, unit) ==
    IF i < n THEN AssignUnit(OSTreeAssign(tree, i, unit), i + 1, n, unit) ELSE tree

NewPartial(n, capacity, age) ==
    LET unit == ScoreFunction(age, n)
    IN  [entries |-> [i \in 1 .. n |-> ProgressEntry(unit, FALSE)],
         capacity |-> capacity,
         cnt_failed |-> n,
         tree_passed |-> OSTreeNew(capacity),
         tree_failed |-> AssignUnit(OSTreeNew(capacity), 0, n, unit),
         age |-> age]

NewEmpty(capacity, age) ==
    [entries |-> <<>>,
     capacity |-> capacity,
     cnt_failed |-> 0,
     tree_passed |-> OSTreeNew(capacity),
     tree_failed |-> OSTreeNew(capacity),
     age |-> age]

\* SupplyLoop with a fault: the weights are assigned from index 0 on.
RECURSIVE SupplyLoopFromZero(_, _, _, _)
SupplyLoopFromZero(t, chunk, i, n) ==
    IF i >= Len(chunk)
    THEN t
    ELSE LET pe == chunk[i + 1]
         IN  SupplyLoopFromZero(
                 IF pe.pass
                 THEN [t EXCEPT !.tree_passed = OSTreeAssign(@, i, pe.distrust)]
                 ELSE [t EXCEPT !.tree_failed = OSTreeAssign(@, i, pe.distrust),
                                !.cnt_failed = @ + 1],
                 chunk, i + 1, n)

\* supply(): the trees and cnt_failed after the loop over the chunk.
RECURSIVE SupplyLoop(_, _, _, _)
SupplyLoop(t, chunk, i, n) ==
    IF i >= Len(chunk)
    THEN t
    ELSE LET pe == chunk[i + 1]
         IN  SupplyLoop(
                 IF pe.pass
                 THEN [t EXCEPT !.tree_passed = OSTreeAssign(@, i + n, pe.distrust)]
                 ELSE [t EXCEPT !.tree_failed = OSTreeAssign(@, i + n, pe.distrust),
                                !.cnt_failed = @ + 1],
                 chunk, i + 1, n)

\* SupplyOk with a fault: a chunk that fills the table exactly is refused.
SupplyOkStrict(t, chunk) == ~ (Len(t.entries) + Len(chunk) >= t.capacity)

SupplyOk(t, chunk) == ~ (Len(t.entries) + Len(chunk) > t.capacity)

Supply(t, chunk) ==
    IF ~ SupplyOk(t, chunk)
    THEN t
    ELSE [SupplyLoop(t, chunk, 0, Len(t.entries)) EXCEPT !.entries = @ \o chunk]

\* select_random_entries(): a value of the selector is a fraction
\* <<num, den>> in [0, 1) that f64 holds exactly; a selector sel is a pair of
\* values which it returns in turn.  (sum as f64 * selector()) as i64:
SelTarget(sum, r) == (sum * r[1]) \div r[2]

SelectorAt(sel, i) == sel[(i % 2) + 1]

\* DrawLoop with a fault: the loop ends one draw short of n.
RECURSIVE DrawLoopShort(_, _, _, _, _)
DrawLoopShort(tree, borrows, i, n, sel) ==
    IF i + 1 >= n \/ OSTreeSum(tree) = 0
    THEN [tree |-> tree, borrows |-> borrows]
    ELSE LET idx == OSTreeRank(tree, SelTarget(OSTreeSum(tree), SelectorAt(sel, i)))
         IN  DrawLoopShort(OSTreeAssign(tree, idx, 0),
                           Append(borrows, [idx |-> idx, val |-> ValueAt(tree, idx)]),
                           i + 1, n, sel)

\* DrawLoop with a fault: the drawn weight is not zeroed.
RECURSIVE DrawLoopNoZero(_, _, _, _, _)
DrawLoopNoZero(tree, borrows, i, n, sel) ==
    IF i >= n \/ OSTreeSum(tree) = 0
    THEN [tree |-> tree, borrows |-> borrows]
    ELSE LET idx == OSTreeRank(tree, SelTarget(OSTreeSum(tree), SelectorAt(sel, i)))
         IN  DrawLoopNoZero(tree,
                            Append(borrows, [idx |-> idx, val |-> ValueAt(tree, idx)]),
                            i + 1, n, sel)

RECURSIVE DrawLoop(_, _, _, _, _)
DrawLoop(tree, borrows, i, n, sel) ==
    IF i >= n \/ OSTreeSum(tree) = 0
    THEN [tree |-> tree, borrows |-> borrows]
    ELSE LET idx == OSTreeRank(tree, SelTarget(OSTreeSum(tree), SelectorAt(sel, i)))
         IN  DrawLoop(OSTreeAssign(tree, idx, 0),
                      Append(borrows, [idx |-> idx, val |-> ValueAt(tree, idx)]),
                      i + 1, n, sel)

\* RestoreLoop with a fault: the last borrow is not given back.
RECURSIVE RestoreLoopButLast(_, _, _)
RestoreLoopButLast(tree, borrows, k) ==
    IF k >= Len(borrows)
    THEN tree
    ELSE RestoreLoopButLast(OSTreeAssign(tree, borrows[k].idx, borrows[k].val),
                            borrows, k + 1)

RECURSIVE RestoreLoop(_, _, _)
RestoreLoop(tree, borrows, k) ==
    IF k > Len(borrows)
    THEN tree
    ELSE RestoreLoop(OSTreeAssign(tree, borrows[k].idx, borrows[k].val), borrows, k + 1)

\* The table and the returned indices.
SelectRandomEntries(t, n, pass, sel) ==
    LET tree == IF pass THEN t.tree_passed ELSE t.tree_failed
        d == DrawLoop(tree, <<>>, 0, n, sel)
        restored == RestoreLoop(d.tree, d.borrows, 1)
    IN  [pt |-> IF pass THEN [t EXCEPT !.tree_passed = restored]
                        ELSE [t EXCEPT !.tree_failed = restored],
         result |-> [k \in 1 .. Len(d.borrows) |-> d.borrows[k].idx]]

SetDistrust(dt0, pass, us) ==
    IF pass THEN DistrustOnPass(dt0) ELSE DistrustOnFail(dt0, us)

\* SetTreeWeight with a fault: the weight is assigned into the other pool.
SetTreeWeightSwapped(dt0, dt1, pass, pool) == IF pass # pool THEN dt0 ELSE 0

\* SetTreeWeight with a fault: the weight is assigned into both pools.
SetTreeWeightBothPools(dt0, dt1, pass, pool) == dt0

\* The weight set() assigns into the tree of pool `pool`.
SetTreeWeight(dt0, dt1, pass, pool) == IF pass = pool THEN dt0 ELSE 0

\* SetCount with a fault: a passed entry set again is not counted back.
SetCountOnce(cnt, was, pass) == cnt - (IF pass THEN 1 ELSE 0)

\* cnt_failed after set(): + 1 if the entry was passed, then - 1 if pass.
SetCount(cnt, was, pass) == cnt + (IF was THEN 1 ELSE 0) - (IF pass THEN 1 ELSE 0)

TableSet(t, idx, pass) ==
    LET us == UnitScore(t)
        entry == t.entries[idx + 1]
        dt0 == entry.distrust
        dt1 == SetDistrust(dt0, pass, us)
    IN  [t EXCEPT
            !.cnt_failed = SetCount(@, entry.pass, pass),
            !.entries[idx + 1] = ProgressEntry(dt1, pass),
            !.tree_passed = OSTreeAssign(@, idx, SetTreeWeight(dt0, dt1, pass, TRUE)),
            !.tree_failed = OSTreeAssign(@, idx, SetTreeWeight(dt0, dt1, pass, FALSE))]

TableStep(t) == [t EXCEPT !.age = @ + 1]

(***************************************************************************)
(* ent_ex.rs: persistence                                                  *)
(***************************************************************************)
NoFile == [age |-> -1, entries |-> <<>>]

\* ProgressTableView::new: table.entries zipped with te (the shorter wins).
ProgressTableViewNew(t, te) ==
    [age |-> t.age,
     entries |-> [k \in 1 .. Min(Len(t.entries), Len(te)) |->
                      [pe |-> t.entries[k], te |-> te[k]]]]

\* imap after the insert loop of new_from_file: a later insert of an equal
\* key replaces the earlier value.
ImapHas(data, x) == \E k \in 1 .. Len(data.entries) : data.entries[k].te = x

\* ImapGet with a fault: the first saved entry, whatever its key.
ImapGetFirst(data, x) == data.entries[1].pe

\* imap[x]
ImapGet(data, x) ==
    LET ks == {k \in 1 .. Len(data.entries) : data.entries[k].te = x}
        kmax == CHOOSE k \in ks : \A j \in ks : j <= k
    IN  data.entries[kmax].pe

CountFailed(es) == Cardinality({k \in 1 .. Len(es) : ~ es[k].pass})

NewFromFile(te, data) ==
    LET n == Len(te)
        pev == [k \in 1 .. n |->
                   IF ImapHas(data, te[k])
                   THEN ImapGet(data, te[k])
                   ELSE ProgressEntry(ScoreFunction(data.age, n), FALSE)]
    IN  [entries |-> pev,
         capacity |-> n,
         cnt_failed |-> CountFailed(pev),
         tree_passed |-> TreeFromEntries(pev, TRUE),
         tree_failed |-> TreeFromEntries(pev, FALSE),
         age |-> data.age]

(***************************************************************************)
(* sim_ex.rs: the session state machine                                    *)
(***************************************************************************)
NoMsg == [kind |-> "None", idx |-> 0]
Assess(i) == [kind |-> "Assess", idx |-> i]
Display(i) == [kind |-> "Display", idx |-> i]
NotifyAssessment == [kind |-> "NotifyAssessment", idx |-> 0]

NoPath == "none"

\* Option<usize>: None is -1.
None == 0 - 1

NoAssessment == [began |-> FALSE, ents |-> <<>>]
NoLearnSingle == [some |-> FALSE, began |-> FALSE, head |-> None, stack |-> <<>>]
NoLearning == [ents |-> <<>>, inner |-> NoLearnSingle]

\* Main::new
MainNew == [inner |-> "None", a |-> NoAssessment, l |-> NoLearning]

\* Simulation::new
SimulationNew(args) == [args |-> args, last_msg |-> NoMsg, state |-> MainNew]

\* Vec::pop and Vec::reverse
Last(q) == q[Len(q)]
Front(q) == SubSeq(q, 1, Len(q) - 1)
Reverse(q) == [k \in 1 .. Len(q) |-> q[Len(q) + 1 - k]]

\* Enter with a fault: the assertion lets depth MAXDEPTH through.
EnterLate(x, depth) ==
    [x EXCEPT !.depth = IF depth > @ THEN depth ELSE @,
              !.panic = IF @ = "none" /\ ~ (depth <= MAXDEPTH) THEN "depth" ELSE @]

\* The Input of a call of next, with what the call has done so far: x.pt is
\* the table, x.args the SimArgs, x.rng the values thread_rng() has still to
\* return (a pair, returned in turn), x.panic the assertion that failed, if
\* any, x.depth the largest depth passed to a Domain::next, x.phases the
\* phases Main has entered.
Enter(x, depth) ==
    [x EXCEPT !.depth = IF depth > @ THEN depth ELSE @,
              !.panic = IF @ = "none" /\ ~ (depth < MAXDEPTH) THEN "depth" ELSE @]

\* Selected with a fault: the index drawn first is left at weight 0.
SelectedKept(x, r, drawn) ==
    [x |-> [x EXCEPT !.pt = IF r.result = <<>>
                            THEN r.pt
                            ELSE [r.pt EXCEPT
                                     !.tree_passed = OSTreeAssign(@, r.result[1], 0),
                                     !.tree_failed = OSTreeAssign(@, r.result[1], 0)],
                     !.rng = IF drawn /\ Len(r.result) % 2 = 1 THEN <<@[2], @[1]>> ELSE @],
     result |-> r.result]

\* The input after a call of select_random_entries that returned r; a
\* selector drawing from the generator leaves it advanced by the draws made.
Selected(x, r, drawn) ==
    [x |-> [x EXCEPT !.pt = r.pt,
                     !.rng = IF drawn /\ Len(r.result) % 2 = 1 THEN <<@[2], @[1]>> ELSE @],
     result |-> r.result]

\* select_random_entries with the selector || rng.gen::<f64>()
SelectRng(x, n, pass) == Selected(x, SelectRandomEntries(x.pt, n, pass, x.rng), TRUE)

\* SelectZero with a fault: the selector draws from the generator.
SelectZeroDrawn(x, n, pass) == SelectRng(x, n, pass)

\* SelectZero with a fault: nothing is drawn.
SelectZeroNothing(x, n, pass) == Selected(x, [pt |-> x.pt, result |-> <<>>], FALSE)

\* select_random_entries with the selector || 0_f64
SelectZero(x, n, pass) ==
    Selected(x, SelectRandomEntries(x.pt, n, pass, <<(<<0, 1>>), (<<0, 1>>)>>), FALSE)

\* Self { ents, began: false }
AssessmentOf(r) == [x |-> r.x, a |-> [began |-> FALSE, ents |-> r.result]]

\* Assessment::new
AssessmentNew(x) == AssessmentOf(SelectRng(x, ASSESS_SESSIONS, TRUE))

\* Assessment::next with a fault: the drawn index is read but not popped.
AssessmentEnteredKeep(a, x) ==
    IF x.panic # "none" THEN [a |-> a, msg |-> NoMsg, x |-> x]
    ELSE IF a.began
    THEN IF a.ents = <<>>
         THEN [a |-> a, msg |-> NoMsg, x |-> x]
         ELSE [a |-> a, msg |-> Assess(Last(a.ents)), x |-> x]
    ELSE [a |-> [a EXCEPT !.began = TRUE],
          msg |-> IF a.ents = <<>> THEN NoMsg ELSE NotifyAssessment,
          x |-> x]

\* Assessment::next past its assertion.
AssessmentEntered(a, x) ==
    IF x.panic # "none" THEN [a |-> a, msg |-> NoMsg, x |-> x]
    ELSE IF a.began
    THEN IF a.ents = <<>>
         THEN [a |-> a, msg |-> NoMsg, x |-> x]
         ELSE [a |-> [a EXCEPT !.ents = Front(@)], msg |-> Assess(Last(a.ents)), x |-> x]
    ELSE [a |-> [a EXCEPT !.began = TRUE],
          msg |-> IF a.ents = <<>> THEN NoMsg ELSE NotifyAssessment,
          x |-> x]

\* Assessment::next: the assessment after the call, the message, the input.
AssessmentNext(a, x0, depth) == AssessmentEntered(a, Enter(x0, depth))

\* LearningOf with a fault: ents is kept in the order drawn.
LearningOfAsDrawn(r) == [x |-> r.x, l |-> [ents |-> r.result, inner |-> NoLearnSingle]]

\* ents.reverse(); Self { ents, inner: None }
LearningOf(r) == [x |-> r.x, l |-> [ents |-> Reverse(r.result), inner |-> NoLearnSingle]]

\* LearningNew with a fault: the batch is drawn from the passed pool.
LearningNewPassed(x) == LearningOf(SelectZero(x, LEARN_SESSIONS, TRUE))

\* Learning::new
LearningNew(x) == LearningOf(SelectZero(x, LEARN_SESSIONS, FALSE))

\* LearnSingle::new
LearnSingleNew(head) == [some |-> TRUE, began |-> FALSE, head |-> head, stack |-> <<>>]

\* LearnSingle::next with a fault: the rehearsal sample is pushed before
\* the head.
LearnSingleShowSampleFirst(ls, x, r) ==
    [ls |-> [ls EXCEPT !.began = TRUE, !.head = None,
                       !.stack = (@ \o r.result)
                                     \o (IF ~ x.args.classic THEN <<ls.head>> ELSE <<>>)],
     msg |-> Display(ls.head),
     x |-> r.x]

\* LearnSingle::next showing its head: the head is pushed unless classic,
\* then the rehearsal sample r is appended.
LearnSingleShow(ls, x, r) ==
    [ls |-> [ls EXCEPT !.began = TRUE, !.head = None,
                       !.stack = (IF ~ x.args.classic THEN Append(@, ls.head) ELSE @)
                                     \o r.result],
     msg |-> Display(ls.head),
     x |-> r.x]

\* LearnSingle::next with a fault: the head is shown once only, also after
\* a wrong answer.
LearnSingleEnteredOnce(ls, x, pass) ==
    IF x.panic # "none" THEN [ls |-> ls, msg |-> NoMsg, x |-> x]
    ELSE IF ls.head # None /\ ~ ls.began
    THEN LearnSingleShow(ls, x, SelectRng(x, 1, TRUE))
    ELSE IF ls.stack = <<>>
    THEN [ls |-> ls, msg |-> NoMsg, x |-> x]
    ELSE [ls |-> [ls EXCEPT !.head = Last(ls.stack), !.stack = Front(@)],
          msg |-> Assess(Last(ls.stack)),
          x |-> x]

\* LearnSingle::next past its assertion.
LearnSingleEntered(ls, x, pass) ==
    IF x.panic # "none" THEN [ls |-> ls, msg |-> NoMsg, x |-> x]
    ELSE IF ls.head # None /\ (~ pass \/ ~ ls.began)
    THEN LearnSingleShow(ls, x, SelectRng(x, 1, TRUE))
    ELSE IF ls.stack = <<>>
    THEN [ls |-> ls, msg |-> NoMsg, x |-> x]
    ELSE [ls |-> [ls EXCEPT !.head = Last(ls.stack), !.stack = Front(@)],
          msg |-> Assess(Last(ls.stack)),
          x |-> x]

\* LearnSingle::next
LearnSingleNext(ls, x0, pass, depth) == LearnSingleEntered(ls, Enter(x0, depth), pass)

RECURSIVE LearningNext(_, _, _, _)

\* Learning::next, Some(ls): r is what ls.next returned.
LearningInner(l, r, pass, depth) ==
    IF r.msg # NoMsg \/ r.x.panic # "none"
    THEN [l |-> [l EXCEPT !.inner = r.ls], msg |-> r.msg, x |-> r.x]
    ELSE LearningNext([l EXCEPT !.inner = NoLearnSingle], r.x, pass, depth + 1)

\* Learning::next past its assertion.
LearningEntered(l, x, pass, depth) ==
    IF x.panic # "none" THEN [l |-> l, msg |-> NoMsg, x |-> x]
    ELSE IF ~ l.inner.some
    THEN IF l.ents = <<>>
         THEN [l |-> l, msg |-> NoMsg, x |-> x]
         ELSE LearningNext([ents |-> Front(l.ents),
                            inner |-> LearnSingleNew(Last(l.ents))],
                           x, pass, depth + 1)
    ELSE LearningInner(l, LearnSingleNext(l.inner, x, pass, depth + 1), pass, depth)

\* Learning::next
LearningNext(l, x0, pass, depth) == LearningEntered(l, Enter(x0, depth), pass, depth)

\* Main holding the Assessment made by r.
AssessmentEntry(r) ==
    [m |-> [inner |-> "V1", a |-> r.a, l |-> NoLearning],
     x |-> [r.x EXCEPT !.phases = Append(@, "Assessment")]]

\* Main holding the Learning made by r.
LearningEntry(r) ==
    [m |-> [inner |-> "V2", a |-> NoAssessment, l |-> r.l],
     x |-> [r.x EXCEPT !.phases = Append(@, "Learning")]]

\* self.inner = Some(Bivariant::V1(Assessment::new(inp)))
EnterAssessment(m, x0) == AssessmentEntry(AssessmentNew(x0))

\* self.inner = Some(Bivariant::V2(Learning::new(inp)))
EnterLearning(m, x0) == LearningEntry(LearningNew(x0))

\* Assessment started again when Assessment completes.
AfterAssessmentAgain(m, x) == EnterAssessment(m, x)

\* The phase Main::next puts in place of the one that returned None.
AfterAssessment(m, x) == EnterLearning(m, x)

\* Learning started again when Learning completes.
AfterLearningAgain(m, x) == EnterLearning(m, x)

AfterLearning(m, x) == EnterAssessment(m, x)

RECURSIVE MainNext(_, _, _, _)

\* self.next(inp, pass, depth + 1) on the phase just put in place.
MainReplaced(e, pass, depth) == MainNext(e.m, e.x, pass, depth + 1)

\* Main::next, Some(V1(a)): r is what a.next returned.
MainAssessment(m, r, pass, depth) ==
    IF r.x.panic # "none" \/ r.msg # NoMsg
    THEN [m |-> [m EXCEPT !.a = r.a], msg |-> r.msg, x |-> r.x]
    ELSE MainReplaced(AfterAssessment([m EXCEPT !.a = r.a], r.x), pass, depth)

\* Main::next, Some(V2(a)): r is what a.next returned.
MainLearning(m, r, pass, depth) ==
    IF r.x.panic # "none" \/ r.msg # NoMsg
    THEN [m |-> [m EXCEPT !.l = r.l], msg |-> r.msg, x |-> r.x]
    ELSE MainReplaced(AfterLearning([m EXCEPT !.l = r.l], r.x), pass, depth)

\* Main::next past its assertion.
MainEntered(m, x, pass, depth) ==
    IF x.panic # "none" THEN [m |-> m, msg |-> NoMsg, x |-> x]
    ELSE IF m.inner = "None"
    THEN MainReplaced(EnterAssessment(m, x), pass, depth)
    ELSE IF m.inner = "V1"
    THEN MainAssessment(m, AssessmentNext(m.a, x, depth + 1), pass, depth)
    ELSE MainLearning(m, LearningNext(m.l, x, pass, depth + 1), pass, depth)

\* Main::next
MainNext(m, x0, pass, depth) == MainEntered(m, Enter(x0, depth), pass, depth)

\* TableEntry::assess
EntryAssess(te, user_input) == user_input = te.rhs

\* Option<String>: None is NoPost.
NoPost == "none"

\* The output path of ptset: outprogress.or(progress).
OutputPath(args) == IF args.outprogress # NoPath THEN args.outprogress ELSE args.progress

\* ProgressTable::write_to_file(te, path): the file holds the snapshot view.
WriteToFile(d, t, te, path) == [d EXCEPT ![path] = ProgressTableViewNew(t, te)]

\* Simulation::ptset after self.pt.set: t1 is the table set.
PtWrite(t1, d, args, te) ==
    [pt |-> t1,
     disk |-> IF OutputPath(args) # NoPath
              THEN WriteToFile(d, t1, te, OutputPath(args))
              ELSE d]

\* Simulation::ptset with a fault: the file is written before the set.
PtSetWriteFirst(t, d, args, te, idx, val) ==
    [pt |-> TableSet(t, idx, val), disk |-> PtWrite(t, d, args, te).disk]

\* Simulation::ptset: the table and the files after it.
PtSet(t, d, args, te, idx, val) == PtWrite(TableSet(t, idx, val), d, args, te)

\* The assertion with the check of a missing answer left out.
ProtocolOkLenient(last_msg, post) == (post # NoPost) => (last_msg.kind = "Assess")

\* The assert_eq! of Simulation::next.
ProtocolOk(last_msg, post) == (last_msg.kind = "Assess") = (post # NoPost)

\* let pass = ...: the answer to the entry last assessed, false otherwise.
AnswerPass(s, te, post) ==
    s.last_msg.kind = "Assess" /\ EntryAssess(te[s.last_msg.idx + 1], post)

\* The table and the files once the answer is recorded.
AnswerRecorded(s, t, d, te, post) ==
    IF s.last_msg.kind = "Assess"
    THEN PtSet(t, d, s.args, te, s.last_msg.idx, AnswerPass(s, te, post))
    ELSE [pt |-> t, disk |-> d]

\* The Input handed to the state machine.
InputOf(s, w, rng) ==
    [pt |-> w.pt, args |-> s.args, rng |-> rng, panic |-> "none", depth |-> 0,
     phases |-> <<>>]

\* self.last_msg = r.clone(); r.unwrap(): r is what self.state.next returned.
SimulationReturn(s, w, b, r) ==
    [sim |-> [s EXCEPT !.state = r.m,
                       !.last_msg = IF r.x.panic = "none" THEN r.msg ELSE @],
     pt |-> r.x.pt, disk |-> w.disk, msg |-> r.msg,
     panic |-> IF r.x.panic = "none" /\ r.msg = NoMsg THEN "unwrap" ELSE r.x.panic,
     pass |-> b, depth |-> r.x.depth, phases |-> r.x.phases]

\* Simulation::next past its assertion: w is the table and the files once
\* the answer is recorded.
SimulationAccepted(s, w, b, rng) ==
    SimulationReturn(s, w, b, MainNext(s.state, InputOf(s, w, rng), b, 1))

\* Simulation::next: the simulation, the table and the files after the call
\* and what the call returned.
SimulationNext(s, t, d, te, post, rng) ==
    IF ~ ProtocolOk(s.last_msg, post)
    THEN [sim |-> s, pt |-> t, disk |-> d, msg |-> NoMsg, panic |-> "protocol",
          pass |-> FALSE, depth |-> 0, phases |-> <<>>]
    ELSE SimulationAccepted(s, AnswerRecorded(s, t, d, te, post),
                            AnswerPass(s, te, post), rng)

(***************************************************************************)
(* Spec: one ProgressTable under set / supply / select_random_entries /    *)
(* step / save and reload.                                                 *)
(***************************************************************************)
TableEntry(l, r) == [lhs |-> l, rhs |-> r]

Items == {TableEntry("a", "1"), TableEntry("b", "2")}

RECURSIVE SeqsUpTo(_, _)
SeqsUpTo(S, n) ==
    IF n = 0
    THEN {<<>>}
    ELSE LET shorter == SeqsUpTo(S, n - 1)
         IN  shorter \cup {Append(q, x) : q \in {r \in shorter : Len(r) = n - 1}, x \in S}

\* The catalogs, up to the renaming of the items.
Catalogs == {c \in SeqsUpTo(Items, MaxLen) : c = <<>> \/ c[1] = TableEntry("a", "1")}

\* The entries a chunk handed to supply() is made of.
ChunkEntries == {ProgressEntry(UNIT, FALSE), ProgressEntry(5000, TRUE)}

SelectorValues == {<<0, 1>>, <<1, 2>>, <<3, 4>>}

Selectors == SelectorValues \X SelectorValues

NoCall == [op |-> "none", idx |-> 0, n |-> 0, pass |-> FALSE, ok |-> TRUE,
           result |-> <<>>]

Call(op, idx, n, pass, ok, result) ==
    [op |-> op, idx |-> idx, n |-> n, pass |-> pass, ok |-> ok, result |-> result]

TreeInit ==
    /\ ost = OSTreeNew(0)
    /\ ostN = 0
    /\ ostOp = NoOp

Paths == {"progress", "outprogress"}

NoDisk == [path \in Paths |-> NoFile]

NoArgs == [progress |-> NoPath, outprogress |-> NoPath, classic |-> FALSE]

NoOut == [msg |-> NoMsg, panic |-> "none", post |-> NoPost, pass |-> FALSE,
          depth |-> 0, phases |-> <<>>]

SimIdle ==
    /\ sim = SimulationNew(NoArgs)
    /\ out = NoOut
    /\ ncalls = 0

TableInit ==
    /\ catalog \in Catalogs
    /\ \/ \E n \in 0 .. Len(catalog) : pt = NewPartial(n, Len(catalog), 0)
       \/ pt = NewEmpty(Len(catalog), 0)
    /\ disk = NoDisk
    /\ last = NoCall
    /\ nsets = 0

Init ==
    /\ TreeInit
    /\ TableInit
    /\ SimIdle

Set(idx, pass) ==
    /\ nsets < MaxSets
    /\ idx < Len(pt.entries)
    /\ pt' = TableSet(pt, idx, pass)
    /\ last' = Call("set", idx, 0, pass, TRUE, <<>>)
    /\ nsets' = nsets + 1
    /\ UNCHANGED <<catalog, disk>>

SupplyChunk(chunk) ==
    /\ pt' = Supply(pt, chunk)
    /\ last' = Call("supply", 0, Len(chunk), FALSE, SupplyOk(pt, chunk), chunk)
    /\ UNCHANGED <<catalog, disk, nsets>>

Select(n, pass, sel) ==
    LET r == SelectRandomEntries(pt, n, pass, sel)
    IN  /\ pt' = r.pt
        /\ last' = Call("select", 0, n, pass, TRUE, r.result)
        /\ UNCHANGED <<catalog, disk, nsets>>

Step ==
    /\ pt.age < MaxAge
    /\ pt' = TableStep(pt)
    /\ last' = Call("step", 0, 0, FALSE, TRUE, <<>>)
    /\ UNCHANGED <<catalog, disk, nsets>>

\* The snapshot view of the table is built and loaded back against the same
\* catalog (a new session started on the file the table was saved to).
Reload ==
    /\ pt' = NewFromFile(catalog, ProgressTableViewNew(pt, catalog))
    /\ last' = Call("reload", 0, 0, FALSE, TRUE, <<>>)
    /\ UNCHANGED <<catalog, disk, nsets>>

SetAny ==
    /\ \E idx \in 0 .. (MaxLen - 1), pass \in BOOLEAN : Set(idx, pass)
    /\ UNCHANGED <<treeVars, simVars>>

SupplyAny ==
    /\ \E chunk \in SeqsUpTo(ChunkEntries, MaxChunk) : SupplyChunk(chunk)
    /\ UNCHANGED <<treeVars, simVars>>

SelectAny ==
    /\ \E n \in 0 .. MaxLen, pass \in BOOLEAN, sel \in Selectors : Select(n, pass, sel)
    /\ UNCHANGED <<treeVars, simVars>>

StepTable ==
    /\ Step
    /\ UNCHANGED <<treeVars, simVars>>

ReloadTable ==
    /\ Reload
    /\ UNCHANGED <<treeVars, simVars>>

Next == SetAny \/ SupplyAny \/ SelectAny \/ StepTable \/ ReloadTable

Spec == Init /\ [][Next]_vars

(***************************************************************************)
(* SpecTree: one OSTree under assign / rank.                               *)
(***************************************************************************)
IdleTable ==
    /\ catalog = <<>>
    /\ pt = NewEmpty(0, 0)
    /\ disk = NoDisk
    /\ last = NoCall
    /\ nsets = 0

InitTree ==
    /\ \E n \in 0 .. MaxTreeLen : ost = OSTreeNew(n) /\ ostN = n
    /\ ostOp = NoOp
    /\ IdleTable
    /\ SimIdle

AssignAny ==
    /\ \E idx \in 0 .. (MaxTreeLen - 1), w \in (0 - 1) .. MaxWeight : TreeAssign(idx, w)
    /\ UNCHANGED <<tableVars, simVars>>

RankAny ==
    /\ \E target \in 0 .. (MaxWeight * MaxTreeLen) : TreeRank(target)
    /\ UNCHANGED <<tableVars, simVars>>

NextTree == AssignAny \/ RankAny

SpecTree == InitTree /\ [][NextTree]_vars

\* The capacity of the tree: its number of leaves.
Leaves(arr) == ArrLen(arr) \div 2

RECURSIVE PrefixSum(_, _)
PrefixSum(arr, i) == IF i = 0 THEN 0 ELSE PrefixSum(arr, i - 1) + ValueAt(arr, i - 1)

NonNegative(arr) == \A i \in 0 .. (Leaves(arr) - 1) : ValueAt(arr, i) >= 0

\* C2: after new(n) and any assign(index, weight) calls with index < n,
\* every internal node equals the sum of its two children and sum() equals
\* the sum of value_at(i) over all i < n.
C2_TreeSums ==
    /\ \A k \in 1 .. (Leaves(ost) - 1) :
          ArrAt(ost, k) = ArrAt(ost, 2 * k) + ArrAt(ost, 2 * k + 1)
    /\ OSTreeSum(ost) = PrefixSum(ost, ostN)

C2_Witness ==
    /\ ostOp.op = "assign"
    /\ ostN >= 3
    /\ Cardinality({i \in 0 .. (ostN - 1) : ValueAt(ost, i) > 0}) >= 2
    /\ \E i \in 0 .. (ostN - 1) : ValueAt(ost, i) < 0

\* C3: on a tree with non-negative weights and sum() > 0, rank(target) for
\* 0 <= target < sum() returns the unique index i whose cumulative interval
\* holds the target: prefix(i) <= target < prefix(i) + value_at(i); so
\* value_at(i) > 0.
C3_RankInterval ==
    (ostOp.op = "rank" /\ NonNegative(ost)) =>
        LET i == ostOp.res
            t == ostOp.arg
            In(j) == PrefixSum(ost, j) <= t /\ t < PrefixSum(ost, j + 1)
        IN  /\ i \in 0 .. (Leaves(ost) - 1)
            /\ In(i)
            /\ ValueAt(ost, i) > 0
            /\ \A j \in 0 .. (Leaves(ost) - 1) : In(j) => j = i

\* A rank whose target is the end of the interval of the index before, with
\* a zero weight in between.
C3_Witness ==
    /\ ostOp.op = "rank"
    /\ NonNegative(ost)
    /\ ostOp.res >= 2
    /\ ValueAt(ost, ostOp.res - 1) = 0
    /\ PrefixSum(ost, ostOp.res) = ostOp.arg

(***************************************************************************)
(* Properties of the progress table (Spec).                                *)
(***************************************************************************)
EntryAt(t, i) == t.entries[i + 1]

PoolTree(t, pass) == IF pass THEN t.tree_passed ELSE t.tree_failed

PoolWeight(t, i, pass) == IF EntryAt(t, i).pass = pass THEN EntryAt(t, i).distrust ELSE 0

\* C1: in every reachable state and for every index i, tree_passed holds
\* entries[i].distrust if entries[i].pass and 0 otherwise, and tree_failed
\* holds entries[i].distrust if not entries[i].pass and 0 otherwise.
C1_DualTree ==
    \A i \in 0 .. (Len(pt.entries) - 1) :
        /\ ValueAt(pt.tree_passed, i) = PoolWeight(pt, i, TRUE)
        /\ ValueAt(pt.tree_failed, i) = PoolWeight(pt, i, FALSE)

NoDuplicates(q) == \A a, b \in 1 .. Len(q) : q[a] = q[b] => a = b

\* C4: one call of select_random_entries returns no index twice, and every
\* returned index has a weight > 0 in the selected pool's tree at the time
\* of the call.
C4_SelectDistinctPositive ==
    [][last'.op = "select" =>
          /\ NoDuplicates(last'.result)
          /\ \A k \in 1 .. Len(last'.result) :
                ValueAt(PoolTree(pt, last'.pass), last'.result[k]) > 0]_vars

\* Two indices drawn, the larger one first.
C4_Witness ==
    /\ last.op = "select"
    /\ Len(last.result) >= 2
    /\ last.result[1] > last.result[2]

\* C5: when select_random_entries returns, both trees (every node, hence
\* every leaf and sum()) and every ProgressEntry are as before the call.
C5_SelectRestores == [][last'.op = "select" => pt' = pt]_vars

C5_Witness ==
    /\ last.op = "select"
    /\ Len(last.result) >= 2
    /\ nsets > 0

\* C6: 0 <= distrust <= UNIT for every entry, after construction and after
\* any sequence of set() calls, also when the unit score is below the
\* entry's distrust.
C6_DistrustInRange ==
    \A k \in 1 .. Len(pt.entries) :
        pt.entries[k].distrust >= 0 /\ pt.entries[k].distrust <= UNIT

\* A failed answer recorded while the unit score was below the distrust.
C6_Witness ==
    /\ last.op = "set"
    /\ ~ last.pass
    /\ UnitScore(pt) < UNIT
    /\ EntryAt(pt, last.idx).distrust > UnitScore(pt)

\* C8: supply(chunk) returns the error exactly when entries.len() +
\* chunk.len() > capacity, and then leaves the table as it was.
C8_SupplyCapacity ==
    [][last'.op = "supply" =>
          /\ last'.ok = ~ (Len(pt.entries) + Len(last'.result) > pt.capacity)
          /\ (~ last'.ok => pt' = pt)
          /\ (last'.ok => Len(pt'.entries) = Len(pt.entries) + Len(last'.result))]_vars

C8_Witness ==
    /\ last.op = "supply"
    /\ ~ last.ok
    /\ Len(pt.entries) < pt.capacity + Len(last.result)
    /\ Len(pt.entries) > 0

(***************************************************************************)
(* SpecPersist: a table made by ProgressTable::new over the whole catalog, *)
(* under set / step / save and reload.                                     *)
(***************************************************************************)
TableNew(te) == NewPartial(Len(te), Len(te), 0)

InitPersist ==
    /\ TreeInit
    /\ catalog \in Catalogs
    /\ pt = TableNew(catalog)
    /\ disk = NoDisk
    /\ last = NoCall
    /\ nsets = 0
    /\ SimIdle

NextPersist == SetAny \/ StepTable \/ ReloadTable

SpecPersist == InitPersist /\ [][NextPersist]_vars

\* C9: building the snapshot view of a table and loading it back against
\* the same catalog yields the same (distrust, pass) for every catalog index.
C9_RoundTrip ==
    [][(last'.op = "reload" /\ Len(pt.entries) = Len(catalog)) =>
          /\ Len(pt'.entries) = Len(catalog)
          /\ \A i \in 0 .. (Len(catalog) - 1) : EntryAt(pt', i) = EntryAt(pt, i)]_vars

(***************************************************************************)
(* SpecSim: one Simulation driven through next().                          *)
(***************************************************************************)
\* What a progress file may hold when the session starts: at most one saved
\* pair.
SnapshotEntries == {ProgressEntry(5000, TRUE), ProgressEntry(0, FALSE)}

Snapshots ==
    {[age |-> 0, entries |-> q] :
        q \in SeqsUpTo({[pe |-> e, te |-> i] : e \in SnapshotEntries, i \in Items}, 1)}

ArgsSet ==
    [progress : {NoPath, "progress"}, outprogress : {NoPath, "outprogress"},
     classic : BOOLEAN]

\* The answers of the driver.
Answers == {"1", "2"}

\* The table a session starts with: loaded when a progress path is given
\* and the file exists, new otherwise.
SessionStart(args) ==
    \/ /\ pt = TableNew(catalog)
       /\ disk = NoDisk
    \/ /\ args.progress # NoPath
       /\ \E data \in Snapshots :
             /\ pt = NewFromFile(catalog, data)
             /\ disk = [NoDisk EXCEPT ![args.progress] = data]

InitSim ==
    /\ TreeInit
    /\ catalog \in Catalogs
    /\ \E args \in ArgsSet :
          /\ sim = SimulationNew(args)
          /\ SessionStart(args)
    /\ last = NoCall
    /\ nsets = 0
    /\ out = NoOut
    /\ ncalls = 0

SimNext ==
    /\ ncalls < MaxCalls
    /\ \E post \in Answers \cup {NoPost}, rng \in Selectors :
          \E r \in {SimulationNext(sim, pt, disk, catalog, post, rng)} :
              /\ sim' = r.sim
              /\ pt' = r.pt
              /\ disk' = r.disk
              /\ out' = [msg |-> r.msg, panic |-> r.panic, post |-> post,
                         pass |-> r.pass, depth |-> r.depth, phases |-> r.phases]
              /\ nsets' = IF r.panic # "protocol" /\ sim.last_msg.kind = "Assess"
                          THEN nsets + 1
                          ELSE nsets
    /\ ncalls' = ncalls + 1
    /\ UNCHANGED <<treeVars, catalog, last>>

NextSim == SimNext

SpecSim == InitSim /\ [][NextSim]_vars

(***************************************************************************)
(* Properties of the simulation (SpecSim).                                 *)
(***************************************************************************)
\* A call of Simulation::next is one step of SpecSim.
Called == ncalls' = ncalls + 1

\* C7: next() accepts an answer if and only if the previously returned
\* message was Assess; an answer after Display, NotifyAssessment or no
\* message, or no answer after Assess, is an error, and then the state
\* machine, last_msg, the table and the files are as before the call.
C7_ProtocolDiscipline ==
    [][Called =>
          LET violation == (sim.last_msg.kind = "Assess") # (out'.post # NoPost)
          IN  /\ (out'.panic = "protocol") = violation
              /\ violation => /\ sim' = sim
                              /\ pt' = pt
                              /\ disk' = disk
                              /\ out'.msg = NoMsg]_vars

\* An answer refused after a Display.
C7_Witness ==
    /\ out.panic = "protocol"
    /\ out.post # NoPost
    /\ sim.last_msg.kind = "Display"

PhaseOf(inner) ==
    IF inner = "V1" THEN "Assessment" ELSE IF inner = "V2" THEN "Learning" ELSE "None"

SomeWeight(t) == OSTreeSum(t.tree_passed) + OSTreeSum(t.tree_failed) > 0

\* C10: the first accepted call enters Assessment; afterwards each phase
\* entered is the other one than the phase it replaces, a phase that still
\* has a message to give is not replaced, Main never returns to its initial
\* state, and on a table with some positive weight every accepted call
\* returns Display, Assess or NotifyAssessment.
C10_MainCycles ==
    [][(Called /\ out'.panic # "protocol") =>
          LET entered == out'.phases
              before == <<PhaseOf(sim.state.inner)>> \o entered
          IN  /\ sim.state.inner = "None" =>
                    (Len(entered) >= 1 /\ entered[1] = "Assessment")
              /\ \A k \in 1 .. Len(entered) :
                    /\ entered[k] \in {"Assessment", "Learning"}
                    /\ entered[k] # before[k]
              /\ PhaseOf(sim'.state.inner) = Last(before)
              /\ sim'.state.inner # "None"
              /\ (sim.state.inner = "V1" /\ sim.state.a.ents # <<>>) => entered = <<>>
              /\ SomeWeight(pt) =>
                    /\ out'.panic = "none"
                    /\ out'.msg.kind \in {"Display", "Assess", "NotifyAssessment"}
                    /\ sim'.last_msg = out'.msg]_vars

\* A call in which Learning completed and the Assessment that replaced it
\* gave the message.
C10_Witness ==
    /\ out.panic = "none"
    /\ Len(out.phases) = 1
    /\ out.phases[1] = "Assessment"
    /\ out.msg = NotifyAssessment
    /\ ncalls > 1

\* A call that passed the assert_eq! of Simulation::next.
Accepted == Called /\ out'.panic # "protocol"

\* C11: in correct use on a table with some positive weight, the depth
\* passed to any Domain::next stays below MAXDEPTH, for right and wrong
\* answers, classic or not: the depth assertion never fails.
C11_DepthBelowMax ==
    [][(Accepted /\ SomeWeight(pt)) =>
          /\ out'.depth >= 1
          /\ out'.depth < MAXDEPTH
          /\ out'.panic # "depth"]_vars

\* A call that went through Learning, its completion, an empty Assessment
\* and a new Learning before it gave a message.
C11_Witness ==
    /\ out.panic = "none"
    /\ Len(out.phases) >= 2
    /\ ncalls > 1
    /\ out.depth >= 6

(***************************************************************************)
(* SpecBatch: one Simulation on tables larger than a batch: a catalog of   *)
(* ASSESS_SESSIONS + 1 items loaded from a progress file, and the fresh    *)
(* catalog of ScenarioLen items.                                           *)
(***************************************************************************)
ScenarioLen == 5

BigNames == <<"a", "b", "c", "d", "e", "f", "g", "h", "i", "j", "k", "l">>

BigLen == ASSESS_SESSIONS + 1

BigCatalog == [i \in 1 .. BigLen |-> TableEntry(BigNames[i], "1")]

\* A progress file in which every item of the catalog was answered right once.
AllPassedFile ==
    [age |-> 0,
     entries |-> [i \in 1 .. BigLen |->
                     [pe |-> ProgressEntry(5000, TRUE), te |-> BigCatalog[i]]]]

\* A progress file saved before the last item was added to the catalog:
\* every item in it was answered right and then wrong (distrust 7071).
OlderFailedFile ==
    [age |-> 0,
     entries |-> [i \in 1 .. (BigLen - 1) |->
                     [pe |-> ProgressEntry(7071, FALSE), te |-> BigCatalog[i]]]]

InitBatch ==
    /\ TreeInit
    /\ \E args \in ArgsSet :
          /\ sim = SimulationNew(args)
          /\ \/ /\ args.progress # NoPath
                /\ catalog = BigCatalog
                /\ \E data \in {AllPassedFile, OlderFailedFile} :
                      /\ pt = NewFromFile(catalog, data)
                      /\ disk = [NoDisk EXCEPT ![args.progress] = data]
             \/ /\ catalog = SubSeq(BigCatalog, 1, ScenarioLen)
                /\ pt = TableNew(catalog)
                /\ disk = NoDisk
    /\ last = NoCall
    /\ nsets = 0
    /\ out = NoOut
    /\ ncalls = 0

NextBatch == SimNext

SpecBatch == InitBatch /\ [][NextBatch]_vars

\* The Assessment made in this call is the phase Main holds after it.
FreshAssessment ==
    /\ out'.panic = "none"
    /\ out'.phases # <<>>
    /\ Last(out'.phases) = "Assessment"

FreshLearning ==
    /\ out'.panic = "none"
    /\ out'.phases # <<>>
    /\ Last(out'.phases) = "Learning"

Range(q) == {q[k] : k \in 1 .. Len(q)}

\* C13: the batch drawn by Learning::new (the index displayed first and
\* the indices still queued) holds the worst-known items: every index in it
\* has a distrust >= that of every failed-pool entry outside it.
C13_LearningWorstKnown ==
    [][(Accepted /\ FreshLearning) =>
          LET batch == {out'.msg.idx} \cup Range(sim'.state.l.ents)
          IN  \A i \in batch, j \in 0 .. (Len(pt'.entries) - 1) :
                  (j \notin batch /\ ~ EntryAt(pt', j).pass) =>
                      EntryAt(pt', i).distrust >= EntryAt(pt', j).distrust]_vars

\* C14: within a Learning phase, when an Assess(i) is answered wrong the
\* next message is Display(i), given by the same LearnSingle; unless the
\* mode is classic, i is queued again for a later Assess(i).
C14_WrongAnswerRedisplays ==
    [][(Accepted /\ sim.state.inner = "V2" /\ sim.last_msg.kind = "Assess"
            /\ ~ out'.pass) =>
          /\ out'.msg = Display(sim.last_msg.idx)
          /\ out'.phases = <<>>
          /\ sim'.state.l.ents = sim.state.l.ents
          /\ ~ sim.args.classic =>
                sim.last_msg.idx \in Range(sim'.state.l.inner.stack)]_vars

\* A wrong answer in a Learning phase, not classic, and the Display after it.
C14_Witness ==
    /\ sim.state.inner = "V2"
    /\ ~ sim.args.classic
    /\ out.post # NoPost
    /\ ~ out.pass
    /\ out.msg.kind = "Display"
    /\ out.msg.idx \in Range(sim.state.l.inner.stack)

\* The item a LearnSingle is about, unless classic: the bottom of its
\* stack, or its head when the stack is empty.
Owner(ls) == IF ls.stack # <<>> THEN ls.stack[1] ELSE ls.head

\* The LearnSingle held before the call returned None in this call.
LearnSingleCompleted ==
    /\ sim.state.inner = "V2"
    /\ sim.state.l.inner.some
    /\ out'.panic = "none"
    /\ \/ out'.phases # <<>>
       \/ Len(sim'.state.l.ents) < Len(sim.state.l.ents)

\* A LearnSingle was made in this call.
LearnSingleCreated ==
    /\ out'.panic = "none"
    /\ sim'.state.inner = "V2"
    /\ \/ FreshLearning
       \/ /\ sim.state.inner = "V2"
          /\ out'.phases = <<>>
          /\ Len(sim'.state.l.ents) < Len(sim.state.l.ents)

\* C15: unless classic, the LearnSingle made for head h shows h first and
\* stays about h; it completes only on a call that follows a rightly
\* answered Assess(h) with the stack empty (never after a Display or a
\* wrong answer), so entry h has pass = true when Learning moves on.
C15_LearnSingleCompletes ==
    [][(Accepted /\ ~ sim.args.classic) =>
          LET ls == sim.state.l.inner
              after == sim'.state.l.inner
          IN  /\ LearnSingleCreated =>
                    /\ after.some
                    /\ out'.msg = Display(Owner(after))
              /\ (sim.state.inner = "V2" /\ ls.some /\ out'.panic = "none"
                      /\ ~ LearnSingleCompleted) =>
                    /\ after.some
                    /\ Owner(after) = Owner(ls)
              /\ LearnSingleCompleted =>
                    /\ sim.last_msg = Assess(Owner(ls))
                    /\ out'.pass
                    /\ ls.stack = <<>>
                    /\ EntryAt(pt', Owner(ls)).pass]_vars

\* A right answer after which Learning went on to its next item.
C15_Witness ==
    /\ ~ sim.args.classic
    /\ sim.state.inner = "V2"
    /\ out.phases = <<>>
    /\ out.post # NoPost
    /\ out.pass
    /\ out.msg.kind = "Display"

\* C16: every call of Simulation::next that records an answer to an Assess
\* advances the age of the table by one, and every other call leaves it.
C16_AgeAdvances ==
    [][Accepted =>
          pt'.age = pt.age + (IF sim.last_msg.kind = "Assess" THEN 1 ELSE 0)]_vars

\* The file at path p holds the entries of table t, paired with the catalog.
OnDisk(d, p, t) ==
    /\ d[p] # NoFile
    /\ Len(d[p].entries) = Len(t.entries)
    /\ \A k \in 1 .. Len(t.entries) :
          /\ d[p].entries[k].pe = t.entries[k]
          /\ d[p].entries[k].te = catalog[k]

\* C17 as claimed: with an output path configured, after every return of
\* next() the file at that path holds the in-memory entries.
C17_OnDiskAfterEveryReturn ==
    [][(Accepted /\ OutputPath(sim.args) # NoPath) =>
          OnDisk(disk', OutputPath(sim.args), pt')]_vars

\* C17, amended: with an output path configured, a call of next() that
\* records an answer (set) has written the snapshot when it returns, and a
\* call that records none changes neither the entries nor the files: after
\* every return that follows the first set of the session the file holds
\* the in-memory entries, and before it the files are as the session found
\* them; with no path configured nothing is written.
C17_SnapshotAfterSet ==
    [][Accepted =>
          LET path == OutputPath(sim.args)
              answered == sim.last_msg.kind = "Assess"
          IN  /\ (answered /\ path # NoPath) => OnDisk(disk', path, pt')
              /\ ~ answered => (disk' = disk /\ pt'.entries = pt.entries)
              /\ (path # NoPath /\ nsets' > 0) => OnDisk(disk', path, pt')
              /\ nsets' = 0 => disk' = disk
              /\ path = NoPath => disk' = disk]_vars

\* An answer recorded on an entry answered before, with an output path
\* configured: the file holds the entries.
C17_Witness ==
    /\ OutputPath(sim.args) # NoPath
    /\ out.post # NoPost
    /\ out.panic = "none"
    /\ OnDisk(disk, OutputPath(sim.args), pt)
    /\ \E k \in 1 .. Len(pt.entries) : pt.entries[k].pass
    /\ \E k \in 1 .. Len(pt.entries) : pt.entries[k].distrust \notin {UNIT, 5000, 0}

(***************************************************************************)
(* SpecPaths: the three ptset implementations of the repository            *)
(* (sim_ex.rs, sim.rs over the table of ent.rs, main.rs over its own       *)
(* table), each under every combination of progress paths.                 *)
(***************************************************************************)
\* ProgressTable::new of ent.rs and of main.rs.
LegacyTableNew(te) ==
    [entries |-> [k \in 1 .. Len(te) |-> [pe |-> ProgressEntry(UNIT, FALSE), te |-> te[k]]],
     tree_passed |-> OSTreeNew(Len(te)),
     tree_failed |-> AssignUnit(OSTreeNew(Len(te)), 0, Len(te), UNIT),
     stp |-> UNIT]

\* ProgressTable::set of ent.rs: the trees are given dt0.
EntSet(t, idx, pass) ==
    [t EXCEPT
        !.entries[idx + 1].pe =
            ProgressEntry(IF pass THEN (@.distrust + 1) \div 2
                                  ELSE DistrustOnFail(@.distrust, UNIT),
                          pass),
        !.tree_passed = OSTreeAssign(@, idx, IF pass THEN t.entries[idx + 1].pe.distrust ELSE 0),
        !.tree_failed = OSTreeAssign(@, idx, IF ~ pass THEN t.entries[idx + 1].pe.distrust ELSE 0)]

\* The distrust ProgressTable::set of main.rs gives an entry.
MainDistrust(d, pass, stp) == IF pass THEN d \div 2 ELSE (d + stp) \div 2

\* ProgressTable::set of main.rs: the trees are given the new distrust.
MainSet(t, idx, pass) ==
    [t EXCEPT
        !.entries[idx + 1].pe = ProgressEntry(MainDistrust(@.distrust, pass, t.stp), pass),
        !.tree_passed =
            OSTreeAssign(@, idx,
                IF pass THEN MainDistrust(t.entries[idx + 1].pe.distrust, pass, t.stp) ELSE 0),
        !.tree_failed =
            OSTreeAssign(@, idx,
                IF ~ pass THEN MainDistrust(t.entries[idx + 1].pe.distrust, pass, t.stp) ELSE 0)]

\* ProgressTableData::new
ProgressTableDataNew(t) == [stp |-> t.stp, entries |-> t.entries]

\* ProgressTable::write_to_file of ent.rs and of main.rs.
LegacyWriteToFile(d, t, path) == [d EXCEPT ![path] = ProgressTableDataNew(t)]

\* The table t1 set, written to the path op, if any.
LegacyPtWrite(t1, d, op) ==
    [pt |-> t1, disk |-> IF op # NoPath THEN LegacyWriteToFile(d, t1, op) ELSE d]

\* Simulation::ptset of sim.rs: outprogress.or(progress).
SimPtSet(t, d, args, idx, val) == LegacyPtWrite(EntSet(t, idx, val), d, OutputPath(args))

\* The output path of ptset in main.rs: progress.or(outprogress).
MainOutputPath(args) == IF args.progress # NoPath THEN args.progress ELSE args.outprogress

\* Simulation::ptset of main.rs.
MainPtSet(t, d, args, idx, val) == LegacyPtWrite(MainSet(t, idx, val), d, MainOutputPath(args))

Implementations == {"sim_ex.rs", "sim.rs", "main.rs"}

InitPaths ==
    /\ TreeInit
    /\ catalog \in Catalogs
    /\ \E args \in ArgsSet, impl \in Implementations :
          /\ sim = [args |-> args, impl |-> impl]
          /\ pt = IF impl = "sim_ex.rs" THEN TableNew(catalog) ELSE LegacyTableNew(catalog)
    /\ disk = NoDisk
    /\ last = NoCall
    /\ nsets = 0
    /\ out = NoOut
    /\ ncalls = 0

\* One call of the ptset of implementation impl, which returned r.
PtSetCall(impl, idx, val, r) ==
    /\ sim.impl = impl
    /\ nsets < MaxSets
    /\ pt' = r.pt
    /\ disk' = r.disk
    /\ last' = Call("ptset", idx, 0, val, TRUE, <<>>)
    /\ nsets' = nsets + 1
    /\ UNCHANGED <<treeVars, catalog, simVars>>

PtSetEx ==
    \E idx \in 0 .. (Len(catalog) - 1), val \in BOOLEAN :
        PtSetCall("sim_ex.rs", idx, val, PtSet(pt, disk, sim.args, catalog, idx, val))

PtSetSim ==
    \E idx \in 0 .. (Len(catalog) - 1), val \in BOOLEAN :
        PtSetCall("sim.rs", idx, val, SimPtSet(pt, disk, sim.args, idx, val))

PtSetMain ==
    \E idx \in 0 .. (Len(catalog) - 1), val \in BOOLEAN :
        PtSetCall("main.rs", idx, val, MainPtSet(pt, disk, sim.args, idx, val))

NextPaths == PtSetEx \/ PtSetSim \/ PtSetMain

SpecPaths == InitPaths /\ [][NextPaths]_vars

\* C18: in every ptset of the repository, with both paths configured the
\* snapshot goes to the outprogress path and the progress path is not
\* written; the progress path is written only when there is no outprogress.
C18_OutprogressFirst ==
    [][last'.op = "ptset" =>
          /\ sim.args.outprogress # NoPath =>
                /\ disk'[sim.args.outprogress] # NoFile
                /\ disk'["progress"] = disk["progress"]
          /\ (sim.args.outprogress = NoPath /\ sim.args.progress # NoPath) =>
                /\ disk'[sim.args.progress] # NoFile
                /\ disk'["outprogress"] = disk["outprogress"]
          /\ (sim.args.outprogress = NoPath /\ sim.args.progress = NoPath) =>
                disk' = disk]_vars

(***************************************************************************)
(* Scenario under Spec: a fresh table over a 2-item catalog.               *)
(***************************************************************************)
\* ProgressTable::new over a catalog of two items.
FreshPair == NewPartial(2, 2, 0)

\* C19: on a fresh table over a 2-item catalog, set(0, true) leaves entry 0
\* with distrust 5000 and pass = true, weight 0 in the failed-pool tree and
\* a positive weight in the passed-pool tree; select_random_entries(1,
\* false, s) then returns exactly [1] for every selector s.
C19_SetThenSelect ==
    [][/\ (pt = FreshPair /\ last'.op = "set" /\ last'.idx = 0 /\ last'.pass) =>
            /\ pt'.entries[1] = ProgressEntry(5000, TRUE)
            /\ pt'.entries[2] = ProgressEntry(UNIT, FALSE)
            /\ ValueAt(pt'.tree_failed, 0) = 0
            /\ ValueAt(pt'.tree_passed, 0) > 0
       /\ (/\ pt = TableSet(FreshPair, 0, TRUE)
           /\ last'.op = "select" /\ last'.n = 1 /\ ~ last'.pass) =>
            last'.result = <<1>>]_vars

\* The failed pool of the 2-item table was sampled after set(0, true).
C19_Witness ==
    /\ nsets = 1
    /\ pt.entries = <<ProgressEntry(5000, TRUE), ProgressEntry(UNIT, FALSE)>>
    /\ ValueAt(pt.tree_passed, 0) > 0
    /\ last.op = "select" /\ last.n = 1 /\ ~ last.pass
    /\ last.result = <<1>>

(***************************************************************************)
(* Scenario under SpecBatch: the all-unseen catalog of ScenarioLen items.  *)
(***************************************************************************)
\* No entry of the table t is marked as answered right.
NoneRight(t) == \A k \in 1 .. Len(t.entries) : ~ t.entries[k].pass

\* What the call of this step gives under the generator rng.
SameCall(rng) == SimulationNext(sim, pt, disk, catalog, out'.post, rng)

\* C20: on the all-unseen catalog of ScenarioLen items the first message
\* (no message was returned before it) is Display(0), not NotifyAssessment;
\* unless the mode is classic the second message (the one after Display(0),
\* no answer being recorded yet) is Assess(0); NotifyAssessment is not given while no entry
\* is marked right; and until then the message, the simulation and the
\* table after a call are the same under every random generator.
C20_UnseenCatalogStart ==
    [][(Accepted /\ Len(catalog) = ScenarioLen) =>
          /\ sim.last_msg = NoMsg => out'.msg = Display(0)
          /\ (sim.last_msg = Display(0) /\ nsets = 0 /\ ~ sim.args.classic) =>
                out'.msg = Assess(0)
          /\ NoneRight(pt') =>
                /\ out'.msg # NotifyAssessment
                /\ \A rng \in Selectors :
                      /\ SameCall(rng).msg = out'.msg
                      /\ SameCall(rng).sim = sim'
                      /\ SameCall(rng).pt = pt']_vars

\* Display(0), Assess(0) and a wrong answer were followed by a message on
\* the catalog of ScenarioLen items, no entry being marked right.
C20_Witness ==
    /\ Len(catalog) = ScenarioLen
    /\ ~ sim.args.classic
    /\ nsets = 1
    /\ out.post # NoPost
    /\ NoneRight(pt)
    /\ out.panic = "none"
    /\ out.msg = Display(0)

(***************************************************************************)
(* SpecSet: set() of the table of ent_ex.rs, started new or from a         *)
(* progress file, and set() of the legacy table of ent.rs.                 *)
(***************************************************************************)
\* Progress files saved after a course of answers on the item (a, 1).
SetFiles ==
    {[age |-> a,
      entries |-> <<[pe |-> ProgressEntry(d, p), te |-> TableEntry("a", "1")]>>] :
        a \in 0 .. MaxAge, d \in {49, 7071}, p \in BOOLEAN}

InitSet ==
    /\ TreeInit
    /\ catalog \in Catalogs
    /\ \E impl \in {"ent_ex.rs", "ent.rs"} :
          /\ sim = [args |-> NoArgs, impl |-> impl]
          /\ \/ impl = "ent_ex.rs" /\ pt = TableNew(catalog)
             \/ impl = "ent_ex.rs" /\ \E data \in SetFiles : pt = NewFromFile(catalog, data)
             \/ impl = "ent.rs" /\ pt = LegacyTableNew(catalog)
    /\ disk = NoDisk
    /\ last = NoCall
    /\ nsets = 0
    /\ out = NoOut
    /\ ncalls = 0

\* ProgressTable::set of ent_ex.rs
SetEx == sim.impl = "ent_ex.rs" /\ SetAny

\* ProgressTable::step of ent_ex.rs
StepEx == sim.impl = "ent_ex.rs" /\ StepTable

\* ProgressTable::set of ent.rs
SetEnt ==
    /\ sim.impl = "ent.rs"
    /\ nsets < MaxSets
    /\ \E idx \in 0 .. (Len(pt.entries) - 1), pass \in BOOLEAN :
          /\ pt' = EntSet(pt, idx, pass)
          /\ last' = Call("set", idx, 0, pass, TRUE, <<>>)
    /\ nsets' = nsets + 1
    /\ UNCHANGED <<treeVars, catalog, disk, simVars>>

NextSet == SetEx \/ StepEx \/ SetEnt

SpecSet == InitSet /\ [][NextSet]_vars

\* The ProgressEntry at index i of either table.
SetEntry(t, i) == IF sim.impl = "ent.rs" THEN t.entries[i + 1].pe ELSE t.entries[i + 1]

\* The unit set() blends with: the unit score, UNIT in the legacy table.
SetUnit(t) == IF sim.impl = "ent.rs" THEN UNIT ELSE UnitScore(t)

\* r is (x as i64) of the f64 x = unit * sqrt(d / unit): the truncated root
\* of d * unit, or one less where d * unit is a square and the f64 product
\* falls just below its root.
TruncatedBlend(r, d, unit) ==
    /\ r \in 0 .. UNIT
    /\ \/ r * r <= d * unit /\ d * unit < (r + 1) * (r + 1)
       \/ (r + 1) * (r + 1) = d * unit

\* C21 as stated: set(index, pass) sets entries[index].pass to the outcome
\* and replaces the distrust d by (d + 1) / 2 when pass is true and by the
\* integer truncation of unit * sqrt(d / unit), the truncated root of
\* d * unit, when pass is false; no other entry changes.
C21_SetEntryExact ==
    [][last'.op = "set" =>
          /\ SetEntry(pt', last'.idx).pass = last'.pass
          /\ SetEntry(pt', last'.idx).distrust =
                IF last'.pass
                THEN (SetEntry(pt, last'.idx).distrust + 1) \div 2
                ELSE Isqrt(SetEntry(pt, last'.idx).distrust * SetUnit(pt))
          /\ \A j \in 0 .. (Len(pt.entries) - 1) :
                j # last'.idx => SetEntry(pt', j) = SetEntry(pt, j)]_vars

\* C21, amended: set(index, pass) sets entries[index].pass to the outcome
\* and replaces the distrust d by (d + 1) / 2 when pass is true and by the
\* truncation to an integer of the f64 value unit * sqrt(d / unit) when pass is
\* false, unit being the unit score of the table (UNIT in the legacy
\* table); that is the truncated root of d * unit, or one less where
\* d * unit is a square; no other entry's distrust or pass flag changes.
C21_SetEntry ==
    [][last'.op = "set" =>
          /\ Len(pt'.entries) = Len(pt.entries)
          /\ SetEntry(pt', last'.idx).pass = last'.pass
          /\ last'.pass =>
                SetEntry(pt', last'.idx).distrust * 2 \in
                    {SetEntry(pt, last'.idx).distrust, SetEntry(pt, last'.idx).distrust + 1}
          /\ ~ last'.pass =>
                TruncatedBlend(SetEntry(pt', last'.idx).distrust,
                               SetEntry(pt, last'.idx).distrust, SetUnit(pt))
          /\ \A j \in 0 .. (Len(pt.entries) - 1) :
                j # last'.idx => SetEntry(pt', j) = SetEntry(pt, j)]_vars

\* A wrong answer recorded on the entry loaded with distrust 49 at age 0,
\* the other entry of the table being as it was made.
C21_Witness ==
    /\ sim.impl = "ent_ex.rs"
    /\ last.op = "set" /\ ~ last.pass /\ last.idx = 0
    /\ nsets = 1
    /\ Len(pt.entries) = 2
    /\ pt.entries[1] = ProgressEntry(699, FALSE)
    /\ pt.entries[2] = ProgressEntry(UNIT, FALSE)

(***************************************************************************)
(* SpecLoad: a table under set / step and the loading of progress files    *)
(* saved against other catalogs.                                           *)
(***************************************************************************)
\* The progress files: up to MaxLen saved pairs over the items of the
\* catalogs and one item no catalog holds.
LoadFiles ==
    {[age |-> a, entries |-> q] :
        a \in 0 .. MaxAge,
        q \in SeqsUpTo({[pe |-> e, te |-> i] :
                           e \in SnapshotEntries,
                           i \in Items \cup {TableEntry("c", "3")}}, MaxLen)}

\* ProgressTable::new_from_file(te, path) on the file data at the path.
LoadAny ==
    /\ \E data \in LoadFiles :
          /\ pt' = NewFromFile(catalog, data)
          /\ disk' = [disk EXCEPT !["progress"] = data]
    /\ last' = Call("load", 0, 0, FALSE, TRUE, <<>>)
    /\ UNCHANGED <<treeVars, catalog, nsets, simVars>>

NextLoad == SetAny \/ StepTable \/ LoadAny

SpecLoad == InitPersist /\ [][NextLoad]_vars

\* The positions of the file data that hold the pair x.
SavedAt(data, x) == {k \in 1 .. Len(data.entries) : data.entries[k].te = x}

\* C22: loading a snapshot against the catalog gives every catalog item
\* whose pair occurs in the snapshot a ProgressEntry saved for that pair
\* and every other catalog item a fresh entry, pass = false and distrust
\* the unit score at the snapshot's age; pairs not in the catalog are
\* dropped: the table has one entry per catalog item, in catalog order.
C22_LoadMerges ==
    [][last'.op = "load" =>
          /\ Len(pt'.entries) = Len(catalog)
          /\ pt'.age = disk'["progress"].age
          /\ \A i \in 1 .. Len(catalog) :
                IF SavedAt(disk'["progress"], catalog[i]) # {}
                THEN \E k \in SavedAt(disk'["progress"], catalog[i]) :
                        pt'.entries[i] = disk'["progress"].entries[k].pe
                ELSE pt'.entries[i] =
                        ProgressEntry(ScoreFunction(disk'["progress"].age, Len(catalog)),
                                      FALSE)]_vars

\* A file of age 1 loaded that holds the second catalog item as answered
\* right and a pair that is not in the catalog, and not the first item.
C22_Witness ==
    /\ last.op = "load"
    /\ Len(catalog) = 2
    /\ disk["progress"].age = 1
    /\ Len(disk["progress"].entries) = 2
    /\ disk["progress"].entries[1].te = TableEntry("c", "3")
    /\ disk["progress"].entries[2] = [pe |-> ProgressEntry(5000, TRUE), te |-> catalog[2]]
    /\ catalog[1] # catalog[2]
    /\ pt.entries = <<ProgressEntry(UnitScore(pt), FALSE), ProgressEntry(5000, TRUE)>>
    /\ UnitScore(pt) < UNIT

\* C23: after construction and after any sequence of set() and supply()
\* calls, accepted or refused, cnt_failed is the number of entries whose
\* pass flag is false; the decrement in set() never takes it below 0.
C23_CntFailed ==
    /\ pt.cnt_failed = Cardinality({i \in 0 .. (Len(pt.entries) - 1) : ~ EntryAt(pt, i).pass})
    /\ pt.cnt_failed >= 0

\* An entry answered right twice, next to a failed one.
C23_Witness ==
    /\ last.op = "set" /\ last.pass
    /\ nsets = 2
    /\ Len(pt.entries) = 2
    /\ EntryAt(pt, last.idx).distrust = 2500
    /\ pt.cnt_failed = 1

\* The number of indices with a positive weight in the tree of a pool.
PoolSize(t, pass) ==
    Cardinality({i \in 0 .. (t.capacity - 1) : ValueAt(PoolTree(t, pass), i) > 0})

\* C24: for every selector, select_random_entries(n, pass, selector)
\* returns exactly min(n, k) indices, k the number of indices with a
\* positive weight in the tree of the selected pool.
C24_SelectCount ==
    [][last'.op = "select" =>
          Len(last'.result) = Min(last'.n, PoolSize(pt, last'.pass))]_vars

\* Two indices asked of a pool of one, in a table of two entries.
C24_Witness ==
    /\ last.op = "select"
    /\ last.n = 2
    /\ Len(pt.entries) = 2
    /\ PoolSize(pt, last.pass) = 1
    /\ Len(last.result) = 1

\* C25: assign(index, w) with index < capacity makes value_at(index) = w,
\* leaves value_at(j) as it was for every j # index and changes sum() by w
\* minus the weight held before; the same assign made again changes
\* nothing.
C25_AssignFrame ==
    [][ostOp'.op = "assign" =>
          /\ ValueAt(ost', ostOp'.arg) = ostOp'.val
          /\ \A j \in 0 .. (Leaves(ost) - 1) :
                j # ostOp'.arg => ValueAt(ost', j) = ValueAt(ost, j)
          /\ OSTreeSum(ost') = OSTreeSum(ost) + ostOp'.val - ValueAt(ost, ostOp'.arg)
          /\ OSTreeAssign(ost', ostOp'.arg, ostOp'.val) = ost']_vars

\* Weight 1 assigned at index 2, next to the weight 2 at index 3.
C25_Witness ==
    /\ ostOp.op = "assign"
    /\ ostOp.val = 1
    /\ ostOp.arg = 2
    /\ ValueAt(ost, 3) = 2
    /\ OSTreeSum(ost) = 3

\* C26: a successful supply(chunk) appends the entries of the chunk in
\* order at the indices len .. len + chunk.len() - 1, leaves every entry
\* held before and its weights in both trees as they were, puts the
\* distrust of each new entry in the tree of its pass flag and 0 in the
\* other; entries.len() <= capacity in every reachable state.
C26_SupplyAppends ==
    /\ [](Len(pt.entries) <= pt.capacity)
    /\ [][(last'.op = "supply" /\ last'.ok) =>
             /\ pt'.entries = pt.entries \o last'.result
             /\ \A i \in 0 .. (Len(pt.entries) - 1) :
                   /\ ValueAt(pt'.tree_passed, i) = ValueAt(pt.tree_passed, i)
                   /\ ValueAt(pt'.tree_failed, i) = ValueAt(pt.tree_failed, i)
             /\ \A k \in 1 .. Len(last'.result) :
                   /\ ValueAt(PoolTree(pt', last'.result[k].pass), Len(pt.entries) + k - 1)
                         = last'.result[k].distrust
                   /\ ValueAt(PoolTree(pt', ~ last'.result[k].pass), Len(pt.entries) + k - 1)
                         = 0]_vars

\* A passed entry supplied next to an entry that was set before.
C26_Witness ==
    /\ last.op = "supply" /\ last.ok
    /\ last.result = <<ProgressEntry(5000, TRUE)>>
    /\ Len(pt.entries) = 2
    /\ nsets >= 1
    /\ ~ EntryAt(pt, 0).pass
    /\ ValueAt(pt.tree_failed, 0) > 0

\* The indices with a positive weight in the tree arr.
Positive(arr) == {i \in 0 .. (Leaves(arr) - 1) : ValueAt(arr, i) > 0}

\* The n lowest of them (all of them if there are fewer).
LowestPositive(arr, n) ==
    {i \in Positive(arr) : Cardinality({j \in Positive(arr) : j < i}) < n}

\* rank(0) on the tree arr gives its lowest index of positive weight.
RankZeroLowest(arr) ==
    OSTreeSum(arr) > 0 =>
        /\ OSTreeRank(arr, 0) \in Positive(arr)
        /\ \A j \in Positive(arr) : OSTreeRank(arr, 0) <= j

\* C27: rank(0) on a tree with sum() > 0 gives the smallest index of
\* positive weight; the batch drawn by Learning::new is the (up to
\* LEARN_SESSIONS) lowest indices of the failed pool; a Learning phase
\* displays its heads in ascending order of index.
C27_LearningAscending ==
    [][Accepted =>
          /\ RankZeroLowest(pt'.tree_failed)
          /\ RankZeroLowest(pt'.tree_passed)
          /\ FreshLearning =>
                {out'.msg.idx} \cup Range(sim'.state.l.ents)
                    = LowestPositive(pt'.tree_failed, LEARN_SESSIONS)
          /\ LearnSingleCreated =>
                /\ out'.msg.kind = "Display"
                /\ \A k \in 1 .. Len(sim'.state.l.ents) :
                      /\ out'.msg.idx < sim'.state.l.ents[k]
                      /\ k > 1 => sim'.state.l.ents[k] < sim'.state.l.ents[k - 1]
                /\ (~ FreshLearning /\ ~ sim.args.classic) =>
                      Owner(sim.state.l.inner) < out'.msg.idx]_vars

\* The second head of a Learning over a failed pool of more than
\* LEARN_SESSIONS entries.
C27_Witness ==
    /\ Len(catalog) = BigLen
    /\ sim.state.inner = "V2"
    /\ out.msg = Display(1)
    /\ out.pass
    /\ Len(sim.state.l.ents) = LEARN_SESSIONS - 2
    /\ Cardinality(Positive(pt.tree_failed)) = LEARN_SESSIONS

\* C28: in a table whose entries all start with a distrust >= 1, after any
\* set(), supply() and select_random_entries() calls, for every index i
\* exactly one of tree_passed.value_at(i) and tree_failed.value_at(i) is
\* not 0, and it is that of tree_passed if and only if entries[i].pass; a
\* call of select_random_entries returns entries of the pool it names only.
C28_PoolMembership ==
    /\ [](\A i \in 0 .. (Len(pt.entries) - 1) :
            /\ (ValueAt(pt.tree_passed, i) # 0) = EntryAt(pt, i).pass
            /\ (ValueAt(pt.tree_failed, i) # 0) = ~ EntryAt(pt, i).pass)
    /\ [][last'.op = "select" =>
             \A k \in 1 .. Len(last'.result) :
                 /\ last'.result[k] < Len(pt.entries)
                 /\ EntryAt(pt, last'.result[k]).pass = last'.pass]_vars

\* The passed pool sampled in a table that holds an entry answered right
\* and then wrong.
C28_Witness ==
    /\ last.op = "select" /\ last.pass
    /\ last.result # <<>>
    /\ nsets = 2
    /\ Len(pt.entries) = 2
    /\ \E i \in 0 .. 1 : ~ EntryAt(pt, i).pass /\ ValueAt(pt.tree_failed, i) = 5000

\* The stack of the LearnSingle that gave the message of this call, as it
\* was when the call entered it.
StackBefore ==
    IF sim.state.inner = "V2" /\ out'.phases = <<>>
          /\ Len(sim'.state.l.ents) = Len(sim.state.l.ents)
    THEN sim.state.l.inner.stack
    ELSE <<>>

\* The rehearsal sample drawn in the call that gave Display: what the
\* stack holds above the head pushed unless classic.
SampleDrawn ==
    SubSeq(sim'.state.l.inner.stack,
           Len(StackBefore) + (IF sim.args.classic THEN 1 ELSE 2),
           Len(sim'.state.l.inner.stack))

\* C29: every Display(h) is given while entry h has pass = false, in
\* classic and non-classic mode and whatever the answers; the rehearsal
\* sample drawn with Display(h) is from the passed pool and so never h.
C29_DisplayFailed ==
    [][(Accepted /\ out'.msg.kind = "Display") =>
          /\ ~ EntryAt(pt', out'.msg.idx).pass
          /\ Len(SampleDrawn) <= 1
          /\ \A k \in 1 .. Len(SampleDrawn) :
                /\ SampleDrawn[k] # out'.msg.idx
                /\ EntryAt(pt', SampleDrawn[k]).pass]_vars

\* Display(1) given with entry 0, answered right before, as its sample.
C29_Witness ==
    /\ out.panic = "none"
    /\ out.msg = Display(1)
    /\ ~ sim.args.classic
    /\ sim.state.l.inner.stack = <<1, 0>>
    /\ EntryAt(pt, 0).pass
    /\ ~ EntryAt(pt, 1).pass

\* Entry j and its leaves in both trees are the same in tables t and u.
SameAt(t, u, j) ==
    /\ EntryAt(t, j) = EntryAt(u, j)
    /\ ValueAt(t.tree_passed, j) = ValueAt(u.tree_passed, j)
    /\ ValueAt(t.tree_failed, j) = ValueAt(u.tree_failed, j)

\* C30: a valid call of Simulation::next with no answer leaves every
\* ProgressEntry, cnt_failed, the age and every leaf of both trees as they
\* were, whatever batches it draws; a call that records the answer to
\* Assess(i) changes entry i only.
C30_TableFrame ==
    [][Accepted =>
          /\ Len(pt'.entries) = Len(pt.entries)
          /\ pt'.age = pt.age
          /\ \A j \in 0 .. (Len(pt.entries) - 1) :
                (sim.last_msg.kind = "Assess" /\ j = sim.last_msg.idx) \/ SameAt(pt', pt, j)
          /\ sim.last_msg.kind # "Assess" =>
                /\ out'.post = NoPost
                /\ pt'.cnt_failed = pt.cnt_failed]_vars

\* A call with no answer in which Assessment::new drew a batch.
C30_Witness ==
    /\ out.panic = "none"
    /\ out.post = NoPost
    /\ out.msg = NotifyAssessment
    /\ sim.state.a.ents # <<>>
    /\ nsets = 0

\* C31: unless classic, the first Assess that follows Display(h) is
\* Assess(h), and the rehearsal sample drawn with that Display is assessed
\* after h, as in the legacy simulate loop.
C31_HeadAssessedFirst ==
    [][(Accepted /\ ~ sim.args.classic /\ sim.last_msg.kind = "Display"
            /\ out'.panic = "none") =>
          out'.msg = Assess(sim.last_msg.idx)]_vars

\* C32: in classic mode every Display(h) is accompanied by set(h, true),
\* and by a snapshot write when a path is configured, as show_entry of the
\* legacy simulate loop does.
C32_ClassicDisplayPasses ==
    [][(Accepted /\ sim.args.classic /\ out'.msg.kind = "Display") =>
          /\ EntryAt(pt', out'.msg.idx).pass
          /\ OutputPath(sim.args) # NoPath => OnDisk(disk', OutputPath(sim.args), pt')]_vars

(***************************************************************************)
(* SpecProgress: a non-classic session on an all-unseen catalog with a     *)
(* driver that answers every Assess right, calls next() again as long as   *)
(* an entry is not passed, and ends the session then.                      *)
(***************************************************************************)
\* The generators of the session.
ProgressSelectors == {<<(<<0, 1>>), (<<3, 4>>)>>, <<(<<3, 4>>), (<<1, 2>>)>>}

\* The right answer to the entry last assessed, no answer otherwise.
RightPost ==
    IF sim.last_msg.kind = "Assess" THEN catalog[sim.last_msg.idx + 1].rhs ELSE NoPost

AllPassed(t) == \A k \in 1 .. Len(t.entries) : t.entries[k].pass

InitProgress ==
    /\ TreeInit
    /\ \E n \in {1, MaxLen, BigLen} : catalog = SubSeq(BigCatalog, 1, n)
    /\ pt = TableNew(catalog)
    /\ sim = SimulationNew(NoArgs)
    /\ disk = NoDisk
    /\ last = NoCall
    /\ nsets = 0
    /\ out = NoOut
    /\ ncalls = 0

DriverNext ==
    /\ out.panic = "none"
    /\ ~ AllPassed(pt)
    /\ \E rng \in ProgressSelectors :
          \E r \in {SimulationNext(sim, pt, disk, catalog, RightPost, rng)} :
              /\ sim' = r.sim
              /\ pt' = r.pt
              /\ disk' = r.disk
              /\ out' = [msg |-> r.msg, panic |-> r.panic, post |-> RightPost,
                         pass |-> r.pass, depth |-> r.depth, phases |-> r.phases]
    /\ ncalls' = ncalls + 1
    /\ UNCHANGED <<treeVars, catalog, last, nsets>>

NextProgress == DriverNext

\* A call of next() returns: next() has no loop that waits and the nesting
\* of its state machine is cut at MAXDEPTH, so the count of calls advances
\* as long as the driver has a call to make.
Returns ==
    /\ out.panic = "none"
    /\ ~ AllPassed(pt)
    /\ ncalls' = ncalls + 1

SpecProgress == InitProgress /\ [][NextProgress]_vars /\ WF_ncalls(Returns)

\* C33: unless classic, from an all-unseen catalog and with every Assess
\* answered right, every catalog index is eventually the subject of a
\* Display and eventually has pass = true, also in a catalog of more than
\* LEARN_SESSIONS items.
C33_EveryItemLearned ==
    \A i \in 0 .. (BigLen - 1) :
        /\ <>(i >= Len(catalog) \/ out.msg = Display(i))
        /\ <>(i >= Len(catalog) \/ EntryAt(pt, i).pass)

\* The last item of a catalog of more than LEARN_SESSIONS items is shown.
C33_Witness ==
    /\ Len(catalog) = BigLen
    /\ out.msg = Display(BigLen - 1)
    /\ \A i \in 0 .. (BigLen - 2) : EntryAt(pt, i).pass

\* Neither pool of t holds a weight.
PoolsEmpty(t) == OSTreeSum(t.tree_passed) = 0 /\ OSTreeSum(t.tree_failed) = 0

\* Main has entered Assessment and Learning in turn, Assessment first.
Alternating(phases) ==
    \A k \in 1 .. Len(phases) :
        phases[k] = IF k % 2 = 1 THEN "Assessment" ELSE "Learning"

\* C34: when both pools are empty, the first call of next() returns no
\* message: Main replaces an empty Assessment by an empty Learning and back
\* until the depth is MAXDEPTH and the depth assertion fails, and the table
\* is left as it was.
C34_EmptyPoolsDepth ==
    [][(Accepted /\ sim.state = MainNew /\ PoolsEmpty(pt)) =>
          /\ out'.msg = NoMsg
          /\ out'.panic = "depth"
          /\ out'.depth = MAXDEPTH
          /\ Len(out'.phases) = MAXDEPTH - 2
          /\ Alternating(out'.phases)
          /\ pt' = pt]_vars

\* The first call has failed on a catalog of one item of weight 0.
C34_Witness ==
    /\ out.panic = "depth"
    /\ Len(catalog) = 1
    /\ pt.entries[1].distrust = 0
    /\ PoolsEmpty(pt)

\* C35: saving a table and loading it back against the same catalog keeps,
\* for every index, the weights held by tree_passed and tree_failed, after
\* any sequence of set() calls.
C35_ReloadKeepsWeights ==
    [][(last'.op = "reload" /\ Len(pt.entries) = Len(catalog)) =>
          \A i \in 0 .. (Len(catalog) - 1) :
              /\ ValueAt(pt'.tree_passed, i) = ValueAt(pt.tree_passed, i)
              /\ ValueAt(pt'.tree_failed, i) = ValueAt(pt.tree_failed, i)]_vars

(***************************************************************************)
(* SpecFloor: set() and step() on tables loaded from progress files that   *)
(* hold small distrusts, for the table of ent_ex.rs and the legacy table   *)
(* of ent.rs.                                                              *)
(***************************************************************************)
MaxStart == 3

\* Progress files that hold the item (a, 1) with a distrust of 1 or more.
FloorFiles ==
    {[age |-> a, stp |-> UNIT,
      entries |-> <<[pe |-> ProgressEntry(d, p), te |-> TableEntry("a", "1")]>>] :
        a \in 0 .. MaxAge, d \in 1 .. MaxStart, p \in BOOLEAN}

\* ProgressTable::new_from_file of ent.rs: an item the file does not hold
\* starts failed with distrust data.stp as i64.
LegacyNewFromFile(te, data) ==
    LET pev == [k \in 1 .. Len(te) |->
                   IF ImapHas(data, te[k])
                   THEN ImapGet(data, te[k])
                   ELSE ProgressEntry(data.stp, FALSE)]
    IN  [entries |-> [k \in 1 .. Len(te) |-> [pe |-> pev[k], te |-> te[k]]],
         tree_passed |-> TreeFromEntries(pev, TRUE),
         tree_failed |-> TreeFromEntries(pev, FALSE),
         stp |-> data.stp]

InitFloor ==
    /\ TreeInit
    /\ catalog \in Catalogs
    /\ \E impl \in {"ent_ex.rs", "ent.rs"}, data \in FloorFiles :
          /\ sim = [args |-> NoArgs, impl |-> impl]
          /\ \/ impl = "ent_ex.rs" /\ pt = NewFromFile(catalog, data)
             \/ impl = "ent.rs" /\ pt = LegacyNewFromFile(catalog, data)
    /\ disk = NoDisk
    /\ last = NoCall
    /\ nsets = 0
    /\ out = NoOut
    /\ ncalls = 0

NextFloor == SetEx \/ StepEx \/ SetEnt

SpecFloor == InitFloor /\ [][NextFloor]_vars

\* The weight entry i holds in the pool it belongs to.
OwnWeight(t, i) ==
    ValueAt(IF SetEntry(t, i).pass THEN t.tree_passed ELSE t.tree_failed, i)

\* C36: in a table whose entries start with distrust >= 1 and whose unit
\* score is >= 1, no sequence of set() calls makes an entry's distrust 0,
\* and every entry keeps a positive weight in its pool.
C36_DistrustFloor ==
    SetUnit(pt) >= 1 =>
        \A i \in 0 .. (Len(pt.entries) - 1) :
            /\ SetEntry(pt, i).distrust >= 1
            /\ OwnWeight(pt, i) >= 1

\* A right answer recorded on an entry of distrust 1 has left it at 1.
C36_Witness ==
    /\ last.op = "set" /\ last.pass
    /\ SetEntry(pt, last.idx).distrust = 1
    /\ OwnWeight(pt, last.idx) = 1

(***************************************************************************)
(* SpecStep: the legacy table of ent.rs, made by ProgressTable::new, under *)
(* set() and step().                                                       *)
(***************************************************************************)
MINPREC == 100

\* const MULT: i64 = UNIT / MINPREC
MULT == UNIT \div MINPREC

\* The weight the trees may hold in all before a step().
MaxTreeSum == 100000000

\* self.stp as i64 after k multiplications of the f64 UNIT by smult =
\* 0.8.powf(n.recip()), down to 20: row = n = entries.len(), column = k + 1.
StpTable ==
    <<
      <<10000, 8000, 6400, 5120, 4096, 3276, 2621, 2097, 1677, 1342, 1073,
        858, 687, 549, 439, 351, 281, 225, 180, 144, 115, 92, 73, 59, 47,
        37, 30, 24>>,
      <<10000, 8944, 8000, 7155, 6400, 5724, 5120, 4579, 4096, 3663, 3276,
        2930, 2621, 2344, 2097, 1875, 1677, 1500, 1342, 1200, 1073, 960,
        858, 768, 687, 614, 549, 491, 439, 393, 351, 314, 281, 251, 225,
        201, 180, 161, 144, 128, 115, 103, 92, 82, 73, 65, 59, 52, 47, 42,
        37, 33, 30, 27, 24, 21>>,
      <<10000, 9283, 8617, 8000, 7426, 6894, 6400, 5941, 5515, 5120, 4752,
        4412, 4096, 3802, 3529, 3276, 3041, 2823, 2621, 2433, 2259, 2097,
        1946, 1807, 1677, 1557, 1445, 1342, 1245, 1156, 1073, 996, 925,
        858, 797, 740, 687, 637, 592, 549, 510, 473, 439, 408, 379, 351,
        326, 303, 281, 261, 242, 225, 209, 194, 180, 167, 155, 144, 133,
        124, 115, 107, 99, 92, 85, 79, 73, 68, 63, 59, 54, 50, 47, 43, 40,
        37, 35, 32, 30, 28, 26, 24, 22, 20>>
    >>

\* The column of row n that holds stp.
StpColumn(n, stp) == CHOOSE k \in 1 .. Len(StpTable[n]) : StpTable[n][k] = stp

\* self.stp *= smult; with no entry n.recip() is infinite and smult is 0.
StpDecay(n, stp) == IF n = 0 THEN 0 ELSE StpTable[n][StpColumn(n, stp) + 1]

\* if self.stp < MINPREC as f64 { ... }: s1 is stp after the first decay.
EntRescale(t, s1) ==
    IF s1 < MINPREC
    THEN [t EXCEPT !.tree_passed = OSTreeMultiply(@, MULT),
                   !.tree_failed = OSTreeMultiply(@, MULT),
                   !.stp = StpDecay(Len(t.entries), s1)]
    ELSE [t EXCEPT !.stp = s1]

\* ProgressTable::step of ent.rs
EntStep(t) == EntRescale(t, StpDecay(Len(t.entries), t.stp))

InitStep ==
    /\ TreeInit
    /\ catalog \in Catalogs
    /\ sim = [args |-> NoArgs, impl |-> "ent.rs"]
    /\ pt = LegacyTableNew(catalog)
    /\ disk = NoDisk
    /\ last = NoCall
    /\ nsets = 0
    /\ out = NoOut
    /\ ncalls = 0

\* step() of the legacy table; last.result holds the coefficient the trees
\* were multiplied by, if they were.
StepEnt ==
    /\ sim.impl = "ent.rs"
    /\ OSTreeSum(pt.tree_passed) + OSTreeSum(pt.tree_failed) <= MaxTreeSum \div MULT
    /\ Len(pt.entries) > 0 => StpColumn(Len(pt.entries), pt.stp) + 2 <= Len(StpTable[Len(pt.entries)])
    /\ pt' = EntStep(pt)
    /\ last' = Call("step", 0, 0, FALSE, TRUE,
                    IF StpDecay(Len(pt.entries), pt.stp) < MINPREC THEN <<MULT>> ELSE <<>>)
    /\ UNCHANGED <<treeVars, catalog, disk, nsets, simVars>>

NextStep == SetEnt \/ StepEnt

SpecStep == InitStep /\ [][NextStep]_vars

\* C37: after a step() of the legacy table that multiplies both trees by
\* UNIT / MINPREC because stp fell below the floor, stp is at or above the
\* floor again (stated for a table that holds an entry).
C37_RescaleRestoresStp ==
    [][(last'.op = "step" /\ last'.result = <<MULT>> /\ Len(pt.entries) > 0) =>
          pt'.stp >= MINPREC]_vars

====
